---- MODULE Spec2Model ----
(***************************************************************************)
(* Model of gee_app/utils/cache_utils.py: key derivation, the Redis       *)
(* connection singleton, the entry store with its popularity counter and  *)
(* the cache configuration.                                                *)
(***************************************************************************)
EXTENDS Integers, Sequences, FiniteSets, TLC

(***************************************************************************)
(* Bounds of the model.                                                    *)
(***************************************************************************)
\* nesting depth of the parameter structures handed to _generate_cache_key
MaxDepth == 3

(***************************************************************************)
(* Python values.  Every value is a record [t, s, kids]: t is the Python   *)
(* type, s the text of a scalar, kids the items of a container in          *)
(* insertion order, each item [k, val] (k is "" for list/tuple elements).  *)
(***************************************************************************)
PyInt(n) == [t |-> "int", s |-> n, kids |-> <<>>]
PyStr(x) == [t |-> "str", s |-> x, kids |-> <<>>]
PyObject == [t |-> "object", s |-> "<object>", kids |-> <<>>]
Item(k, v) == [k |-> k, val |-> v]
PyDict(items) == [t |-> "dict", s |-> "", kids |-> items]
PyList(elems) == [t |-> "list", s |-> "", kids |-> [i \in DOMAIN elems |-> Item("", elems[i])]]
PyTuple(elems) == [t |-> "tuple", s |-> "", kids |-> [i \in DOMAIN elems |-> Item("", elems[i])]]

\* Python's order on the str keys used by the model ("a" < "b" < "c")
KeyOrd(k) == CASE k = "a" -> 1 [] k = "b" -> 2 [] k = "c" -> 3 [] OTHER -> 0

\* sorted(obj.items()): keys are unique, so the order is the order of the keys
SortedItems(items) == SortSeq(items, LAMBDA x, y : KeyOrd(x.k) < KeyOrd(y.k))

RECURSIVE sort_dict_recursive(_)
sort_dict_recursive(obj) ==
    IF obj.t = "dict"
    THEN LET rec == [i \in DOMAIN obj.kids |->
                        Item(obj.kids[i].k, sort_dict_recursive(obj.kids[i].val))]
         IN  [obj EXCEPT !.kids = SortedItems(rec)]
    ELSE IF obj.t = "list"
    THEN [obj EXCEPT !.kids = [i \in DOMAIN obj.kids |->
                        Item("", sort_dict_recursive(obj.kids[i].val))]]
    ELSE obj

\* json.dumps raises TypeError on a value it cannot encode
RECURSIVE JsonSerializable(_)
JsonSerializable(x) ==
    /\ x.t # "object"
    /\ \A i \in DOMAIN x.kids : JsonSerializable(x.kids[i].val)

RECURSIVE JoinTokens(_, _)
JoinTokens(parts, i) ==
    IF i > Len(parts) THEN <<>>
    ELSE (IF i > 1 THEN <<",">> ELSE <<>>) \o parts[i] \o JoinTokens(parts, i + 1)

\* json.dumps(x, sort_keys=sort_keys) as the sequence of tokens of the text
RECURSIVE json_dumps(_, _)
json_dumps(x, sort_keys) ==
    CASE x.t = "int" -> <<x.s>>
      [] x.t = "str" -> <<"\"", x.s, "\"">>
      [] x.t = "dict" ->
            LET items == IF sort_keys THEN SortedItems(x.kids) ELSE x.kids
                parts == [i \in DOMAIN items |->
                            <<"\"", items[i].k, "\"", ":">> \o json_dumps(items[i].val, sort_keys)]
            IN  <<"{">> \o JoinTokens(parts, 1) \o <<"}">>
      [] x.t \in {"list", "tuple"} ->
            LET parts == [i \in DOMAIN x.kids |-> json_dumps(x.kids[i].val, sort_keys)]
            IN  <<"[">> \o JoinTokens(parts, 1) \o <<"]">>
      [] OTHER -> <<"TypeError">>

\* any(isinstance(x, dict) for x in data)
AnyDictElement(data) == \E i \in DOMAIN data.kids : data.kids[i].val.t = "dict"

\* hashlib.sha256(...).hexdigest() behind the "cache:" prefix; the digest is
\* taken as collision free, so it is represented by the text it digests
Sha256Key(serialized) == <<"cache:">> \o serialized

TypeErrorRaised == <<"raise", "TypeError">>

\* the serialization that is never canonicalized
generate_cache_key_unsorted(data) ==
    IF data.t = "str" THEN Sha256Key(<<data.s>>)
    ELSE IF JsonSerializable(data) THEN Sha256Key(json_dumps(data, FALSE))
    ELSE Sha256Key(<<data.s>>)

generate_cache_key(data) ==
    IF data.t = "dict"
    THEN IF JsonSerializable(data)
         THEN Sha256Key(json_dumps(sort_dict_recursive(data), TRUE))
         ELSE TypeErrorRaised
    ELSE IF data.t \in {"list", "tuple"}
    THEN IF JsonSerializable(data)
         THEN Sha256Key(json_dumps(data, AnyDictElement(data)))
         ELSE TypeErrorRaised
    ELSE IF data.t = "str"
    THEN Sha256Key(<<data.s>>)
    ELSE IF JsonSerializable(data)
         THEN Sha256Key(json_dumps(data, FALSE))
         ELSE Sha256Key(<<data.s>>)

(***************************************************************************)
(* The parameter structures the key derivation is exercised on.            *)
(***************************************************************************)
Scalars == {PyInt("1"), PyInt("2"), PyStr("x")}

RECURSIVE Structures(_)
Structures(d) ==
    IF d = 0 THEN Scalars
    ELSE LET sub == Structures(d - 1)
         IN  Scalars
             \cup {PyDict(<<Item("a", x)>>) : x \in sub}
             \cup {PyDict(<<Item("a", x), Item("b", y)>>) : x \in sub, y \in Scalars}
             \cup {PyDict(<<Item("b", y), Item("a", x)>>) : x \in sub, y \in Scalars}
             \cup {PyList(<<x>>) : x \in sub}
             \cup {PyTuple(<<x>>) : x \in sub}

\* an object json cannot encode, alone and inside a mapping, a list and a tuple
Unserializable ==
    {PyObject, PyDict(<<Item("a", PyObject)>>), PyList(<<PyObject>>), PyTuple(<<PyObject>>)}

\* the mapping obtained from x by sorting the keys of every mapping in it
RECURSIVE Normalized(_)
Normalized(x) ==
    LET rec == [i \in DOMAIN x.kids |-> Item(x.kids[i].k, Normalized(x.kids[i].val))]
    IN  [x EXCEPT !.kids = IF x.t = "dict" THEN SortedItems(rec) ELSE rec]

\* the structures that hold the same key/value pairs as x, in any insertion order
RECURSIVE Reorderings(_)
Reorderings(x) ==
    IF Len(x.kids) = 0 THEN {x}
    ELSE IF Len(x.kids) = 1
    THEN {[x EXCEPT !.kids = <<Item(x.kids[1].k, v)>>] : v \in Reorderings(x.kids[1].val)}
    ELSE LET both == {<<Item(x.kids[1].k, v), Item(x.kids[2].k, w)>> :
                        v \in Reorderings(x.kids[1].val), w \in Reorderings(x.kids[2].val)}
         IN  {[x EXCEPT !.kids = s] : s \in both}
             \cup (IF x.t = "dict"
                   THEN {[x EXCEPT !.kids = <<s[2], s[1]>>] : s \in both}
                   ELSE {})

NoKey == <<>>

(***************************************************************************)
(* Program state.                                                          *)
(***************************************************************************)
Procs == {"p1", "p2"}

\* client objects; an identity is reused once nothing refers to it any more
MaxClients == 4
ClientIds == 1 .. MaxClients
None == 0

max_retries == 3
retry_delay == 1

\* seconds an entry may live, and the largest request_count a further read is
\* started at
MaxTTL == 2
MaxCount == 3

\* the environment-derived defaults (lines 15 and 17), in the model's seconds
CACHE_EXPIRATION_SECONDS == MaxTTL
ENABLE_CACHE == TRUE

\* payloads handed to the store: two mappings, a tuple, and an object json cannot encode
Payload1 == PyDict(<<Item("a", PyInt("1"))>>)
Payload2 == PyDict(<<Item("a", PyInt("2"))>>)
PayloadTuple == PyTuple(<<PyInt("1")>>)
Payloads == {Payload1, Payload2, PayloadTuple, PyObject}

\* json.loads(json.dumps(x)): tuples come back as lists
RECURSIVE JsonRoundTrip(_)
JsonRoundTrip(x) ==
    [x EXCEPT !.t = IF x.t = "tuple" THEN "list" ELSE x.t,
              !.kids = [i \in DOMAIN x.kids |->
                            Item(x.kids[i].k, JsonRoundTrip(x.kids[i].val))]]

\* data_copy = data.copy(); data_copy["_type"] = analysis_type
WithType(data, analysis_type) ==
    IF analysis_type = "" THEN data
    ELSE [data EXCEPT !.kids = Append(data.kids, Item("_type", PyStr(analysis_type)))]

AnalysisTypes == {"", "t"}
Key1 == generate_cache_key(Payload1)
Key1Typed == generate_cache_key(WithType(Payload1, "t"))

\* a function f wrapped by cache_decorator() and called as f(1): the mapping
\* the wrapper derives its key from (lines 150-157, no prefix) and what the
\* body returns
FuncArgs == PyTuple(<<PyInt("1")>>)
CacheData(args) ==
    PyDict(<<Item("func", PyStr("f")), Item("args", args), Item("kwargs", PyDict(<<>>))>>)
FuncResult(args) == PyDict(<<Item("r", args.kids[1].val)>>)
KeyFunc == generate_cache_key(CacheData(FuncArgs))

CacheKeys == {Key1, Key1Typed, KeyFunc}

\* glob patterns of invalidate_by_pattern and the keys each matches: every
\* key, the keys of one prefix (here Key1 alone), no key
Patterns == {"*", "one*", "none*"}
Matching(pattern, keys) ==
    IF pattern = "*" THEN keys
    ELSE IF pattern = "one*" THEN keys \cap {Key1}
    ELSE {}

\* expiration=None
NoneArg == -1

\* time.time(): the wall clock is not followed, every reading of it is this value
TimeNow == "time.time()"

\* a stored value with its remaining time to live, and the absent key; json
\* tells whether the stored string is JSON text
Entry(data, cached_at, request_count, seconds) ==
    [present |-> TRUE, json |-> TRUE, data |-> data, cached_at |-> cached_at,
     request_count |-> request_count, ttl |-> seconds]
NoEntry ==
    [present |-> FALSE, json |-> TRUE, data |-> PyStr(""), cached_at |-> "",
     request_count |-> 0, ttl |-> 0]

VARIABLES
    inA, inB,       \* the two structures handed to _generate_cache_key
    keyA, keyB,     \* the keys derived from them (NoKey before the call)
    REDIS_URL,      \* whether the REDIS_URL environment variable is set
    redis_client,   \* the module global: None or a client object
    pinged,         \* the client objects whose ping() has returned
    handed,         \* the client objects get_redis_client has returned to a caller
    exhausted,      \* the last get_redis_client call to end ran out of attempts
    storeUp,        \* whether the Redis server answers
    pc,             \* per caller: the statement it is at
    stack,          \* per caller: where the functions it is in return to
    client,         \* per caller: what get_redis_client() handed to it last
    attempt,        \* per caller: the loop variable of get_redis_client
    trace,          \* per caller: connects, pings and sleeps of the current get_redis_client call
    exc,            \* per caller: the exception in flight ("" when none)
    ret,            \* per caller: what the function it called last returned
    call,           \* per caller: the top-level call it makes, with its arguments
    cached_result,  \* per caller: local of get_cached_data_by_key
    current_data,   \* per caller: local of increment_request_count
    ttl,            \* per caller: local of increment_request_count
    matching_keys,  \* per caller: local of invalidate_by_pattern
    enabled,        \* cache_config.enabled
    expiration,     \* cache_config.expiration
    restored,       \* the settings the last call of reset found off their defaults
    store,          \* the Redis keyspace: per key, the entry and its time to live
    hits,           \* per key: the hits returned since the key was last put
    written,        \* per key: the payload handed to the call that wrote the entry
    expired,        \* per key: the key is absent because its time to live ran out
    fs,             \* the file system: per path, what is there and its modification time
    now,            \* time.time(), in seconds
    fres            \* the last file-cache call, its arguments and what it returned

keyVars == <<inA, inB, keyA, keyB>>
connVars == <<REDIS_URL, redis_client, pinged, handed, exhausted, storeUp>>
procVars == <<pc, stack, client, attempt, trace, exc, ret>>
localVars == <<call, cached_result, current_data, ttl, matching_keys>>
cfgVars == <<enabled, expiration, restored>>
storeVars == <<store, hits, written, expired>>
fileVars == <<fs, now, fres>>
vars == <<inA, inB, keyA, keyB, REDIS_URL, redis_client, pinged, handed, exhausted, storeUp,
          pc, stack, client, attempt, trace, exc, ret,
          call, cached_result, current_data, ttl, matching_keys,
          enabled, expiration, restored, store, hits, written, expired, fs, now, fres>>

\* what a top-level call hands back: None, a bool, an int, a client or an exception
RetNone == [kind |-> "None", n |-> 0, val |-> PyStr(""), key |-> NoKey]
RetClient(c) == [RetNone EXCEPT !.kind = "client", !.n = c]
RetRaise(e) == [RetNone EXCEPT !.kind = e]
RetBool(b) == [RetNone EXCEPT !.kind = "bool", !.n = IF b THEN 1 ELSE 0]
RetInt(n) == [RetNone EXCEPT !.kind = "int", !.n = n]
RetValue(v) == [RetNone EXCEPT !.kind = "value", !.val = v]
RetKey(k) == [RetNone EXCEPT !.kind = "key", !.key = k]

NoCall == [fn |-> "", cache_key |-> NoKey, data |-> PyStr(""), expiration |-> NoneArg,
           analysis_type |-> "", pattern |-> ""]

KeyInit ==
    /\ inA \in Structures(MaxDepth) \cup Unserializable
    /\ inB \in Reorderings(inA)
    /\ keyA = NoKey
    /\ keyB = NoKey

KeyIdle ==
    /\ inA = PyStr("")
    /\ inB = PyStr("")
    /\ keyA = NoKey
    /\ keyB = NoKey

ConnInit ==
    /\ REDIS_URL \in BOOLEAN
    /\ redis_client = None
    /\ pinged = {}
    /\ handed = {}
    /\ exhausted = FALSE
    /\ storeUp \in BOOLEAN

ProcInit ==
    /\ pc = [p \in Procs |-> "idle"]
    /\ stack = [p \in Procs |-> <<>>]
    /\ client = [p \in Procs |-> None]
    /\ attempt = [p \in Procs |-> 0]
    /\ trace = [p \in Procs |-> <<>>]
    /\ exc = [p \in Procs |-> ""]
    /\ ret = [p \in Procs |-> RetNone]
    /\ call = [p \in Procs |-> NoCall]
    /\ cached_result = [p \in Procs |-> NoEntry]
    /\ current_data = [p \in Procs |-> NoEntry]
    /\ ttl = [p \in Procs |-> 0]
    /\ matching_keys = [p \in Procs |-> {}]

\* cache_config = CacheConfig(), lines 25-28
CfgInit ==
    /\ enabled = ENABLE_CACHE
    /\ expiration = CACHE_EXPIRATION_SECONDS
    /\ restored = {}

StoreInit ==
    /\ store = [k \in CacheKeys |-> NoEntry]
    /\ hits = [k \in CacheKeys |-> 0]
    /\ written = [k \in CacheKeys |-> PyStr("")]
    /\ expired = [k \in CacheKeys |-> FALSE]

\* _generate_cache_key applied to both structures
GenerateKeys ==
    /\ keyA = NoKey
    /\ inA # PyStr("")
    /\ keyA' = generate_cache_key(inA)
    /\ keyB' = generate_cache_key(inB)
    /\ UNCHANGED <<inA, inB, fileVars, connVars, procVars, localVars, cfgVars, storeVars>>

(***************************************************************************)
(* get_redis_client, one step per access to the global or to the server.   *)
(***************************************************************************)
\* the client objects something still refers to
InUse ==
    {redis_client} \cup handed \cup {client[p] : p \in Procs}
        \cup {ret[p].n : p \in {q \in Procs : ret[q].kind = "client"}}
FreshClient == CHOOSE c \in ClientIds : c \notin InUse

\* wait_time = retry_delay * (2 ** attempt), with a constant delay instead
WaitTimeConstant(a) == retry_delay
WaitTime(a) == retry_delay * (2 ^ a)

\* control returns to the caller of the innermost function
Return(p) ==
    /\ pc' = [pc EXCEPT ![p] = Head(stack[p])]
    /\ stack' = [stack EXCEPT ![p] = Tail(stack[p])]

\* the environment: the server goes away or comes back
StoreFlip ==
    /\ storeUp' = ~storeUp
    /\ UNCHANGED <<keyVars, fileVars, REDIS_URL, redis_client, pinged, handed, exhausted, procVars, localVars, cfgVars, storeVars>>

\* line 54-57: if redis_client is None / if not REDIS_URL
GrcCheck(p) ==
    /\ pc[p] = "grc_check"
    /\ trace' = [trace EXCEPT ![p] = <<>>]
    /\ attempt' = [attempt EXCEPT ![p] = 0]
    /\ IF redis_client # None
       THEN /\ pc' = [pc EXCEPT ![p] = "grc_return"]
            /\ UNCHANGED <<stack, exc, client>>
       ELSE IF ~REDIS_URL
       THEN /\ exc' = [exc EXCEPT ![p] = "ValueError"]
            /\ client' = [client EXCEPT ![p] = None]
            /\ Return(p)
       ELSE /\ pc' = [pc EXCEPT ![p] = "grc_connect"]
            /\ UNCHANGED <<stack, exc, client>>
    /\ UNCHANGED <<keyVars, fileVars, connVars, ret, localVars, cfgVars, storeVars>>

\* line 68: redis_client = redis.from_url(...)
GrcConnect(p) ==
    /\ pc[p] = "grc_connect"
    /\ \E c \in ClientIds : c \notin InUse
    /\ redis_client' = FreshClient
    /\ pinged' = pinged \ {FreshClient}
    /\ trace' = [trace EXCEPT ![p] = Append(@, <<"connect", attempt[p]>>)]
    /\ pc' = [pc EXCEPT ![p] = "grc_ping"]
    /\ UNCHANGED <<keyVars, fileVars, REDIS_URL, handed, exhausted, storeUp, stack, client, attempt, exc, ret,
                   localVars, cfgVars, storeVars>>

\* line 79 and line 90: a redis.exceptions.ConnectionError is retried, any
\* other exception is not
RetriesAny(err) == TRUE
Retries(err) == err = "ConnectionError"

\* line 87: redis_client = None, once the attempts have run out
AfterExhaustionKept(c) == c
AfterExhaustion(c) == None

\* line 75: redis_client.ping(), and the except clauses of lines 79-93
GrcPing(p) ==
    /\ pc[p] = "grc_ping"
    /\ IF redis_client # None /\ storeUp
       THEN /\ pinged' = pinged \cup {redis_client}
            /\ trace' = [trace EXCEPT ![p] = Append(@, <<"ping_ok", attempt[p]>>)]
            /\ pc' = [pc EXCEPT ![p] = "grc_return_new"]
            /\ UNCHANGED <<redis_client, stack, exc, client, exhausted>>
       ELSE \E transient \in BOOLEAN :
            LET err == IF redis_client # None /\ transient
                       THEN "ConnectionError" ELSE "Exception"
                event == IF err = "ConnectionError"
                         THEN "ping_ConnectionError" ELSE "ping_Exception"
            IN  /\ trace' = [trace EXCEPT ![p] = Append(@, <<event, attempt[p]>>)]
                /\ UNCHANGED pinged
                /\ IF Retries(err)
                   THEN IF attempt[p] < max_retries - 1
                        THEN /\ pc' = [pc EXCEPT ![p] = "grc_sleep"]
                             /\ UNCHANGED <<redis_client, stack, exc, client, exhausted>>
                        ELSE /\ redis_client' = AfterExhaustion(redis_client)
                             /\ exhausted' = TRUE
                             /\ exc' = [exc EXCEPT ![p] = "ConnectionError"]
                             /\ client' = [client EXCEPT ![p] = None]
                             /\ Return(p)
                   ELSE /\ redis_client' = None
                        /\ exhausted' = FALSE
                        /\ exc' = [exc EXCEPT ![p] = "ConnectionError"]
                        /\ client' = [client EXCEPT ![p] = None]
                        /\ Return(p)
    /\ UNCHANGED <<keyVars, fileVars, REDIS_URL, handed, storeUp, attempt, ret, localVars, cfgVars, storeVars>>

\* line 82-84: time.sleep(wait_time), then the next iteration of the loop
GrcSleep(p) ==
    /\ pc[p] = "grc_sleep"
    /\ trace' = [trace EXCEPT ![p] = Append(@, <<"sleep", WaitTime(attempt[p])>>)]
    /\ attempt' = [attempt EXCEPT ![p] = @ + 1]
    /\ pc' = [pc EXCEPT ![p] = "grc_connect"]
    /\ UNCHANGED <<keyVars, fileVars, connVars, stack, client, exc, ret, localVars, cfgVars, storeVars>>

\* line 77: return redis_client, inside the loop
GrcReturnNew(p) ==
    /\ pc[p] = "grc_return_new"
    /\ client' = [client EXCEPT ![p] = redis_client]
    /\ handed' = handed \cup ({redis_client} \ {None})
    /\ exhausted' = FALSE
    /\ Return(p)
    /\ UNCHANGED <<keyVars, fileVars, REDIS_URL, redis_client, pinged, storeUp, attempt, trace, exc, ret,
                   localVars, cfgVars, storeVars>>

\* line 95: return redis_client, the global was set already
GrcReturn(p) ==
    /\ pc[p] = "grc_return"
    /\ client' = [client EXCEPT ![p] = redis_client]
    /\ handed' = handed \cup ({redis_client} \ {None})
    /\ UNCHANGED exhausted
    /\ Return(p)
    /\ UNCHANGED <<keyVars, fileVars, REDIS_URL, redis_client, pinged, storeUp, attempt, trace, exc, ret,
                   localVars, cfgVars, storeVars>>

get_redis_client(p) ==
    \/ GrcCheck(p)
    \/ GrcConnect(p)
    \/ GrcPing(p)
    \/ GrcSleep(p)
    \/ GrcReturnNew(p)
    \/ GrcReturn(p)

\* a caller (initialize_db, line 191) asks for the client
CallGetRedisClient(p) ==
    /\ pc[p] = "idle"
    /\ pc' = [pc EXCEPT ![p] = "grc_check"]
    /\ stack' = [stack EXCEPT ![p] = <<"grc_done">>]
    /\ exc' = [exc EXCEPT ![p] = ""]
    /\ client' = [client EXCEPT ![p] = None]
    /\ ret' = [ret EXCEPT ![p] = RetNone]
    /\ call' = [call EXCEPT ![p] = [NoCall EXCEPT !.fn = "get_redis_client"]]
    /\ UNCHANGED <<keyVars, fileVars, connVars, attempt, trace, cached_result, current_data, ttl,
                   matching_keys, cfgVars, storeVars>>

\* the caller has the client, or the exception
GrcDone(p) ==
    /\ pc[p] = "grc_done"
    /\ pc' = [pc EXCEPT ![p] = "idle"]
    /\ ret' = [ret EXCEPT ![p] = IF exc[p] # "" THEN RetRaise(exc[p])
                                 ELSE IF client[p] = None THEN RetNone
                                 ELSE RetClient(client[p])]
    /\ UNCHANGED <<keyVars, fileVars, connVars, stack, client, attempt, trace, exc, localVars, cfgVars, storeVars>>

(***************************************************************************)
(* The entry store.  Every function is cut at its accesses to the server.  *)
(***************************************************************************)
Max(a, b) == IF a >= b THEN a ELSE b

\* json.loads(cached_result): the stored mapping, as the caller gets it
EntryAsPy(e) ==
    PyDict(<<Item("data", e.data),
             Item("cached_at", [t |-> "float", s |-> e.cached_at, kids |-> <<>>]),
             Item("request_count", PyInt(ToString(e.request_count)))>>)

\* the function returns v to its caller; its locals, and those of the functions
\* it called, are gone
ReturnWith(p, v) ==
    /\ ret' = [ret EXCEPT ![p] = v]
    /\ Return(p)
    /\ current_data' = [current_data EXCEPT ![p] = NoEntry]
    /\ ttl' = [ttl EXCEPT ![p] = 0]
    /\ matching_keys' = [matching_keys EXCEPT ![p] = {}]
    /\ cached_result' = IF Head(stack[p]) = "idle"
                        THEN [cached_result EXCEPT ![p] = NoEntry]
                        ELSE cached_result
    /\ client' = IF Head(stack[p]) = "idle" THEN [client EXCEPT ![p] = None] ELSE client

\* the function goes on at label
Continue(p, label) ==
    /\ pc' = [pc EXCEPT ![p] = label]
    /\ UNCHANGED <<stack, ret, client>>

\* the function calls get_redis_client() and goes on at label
CallClient(p, label) ==
    /\ pc' = [pc EXCEPT ![p] = "grc_check"]
    /\ stack' = [stack EXCEPT ![p] = <<label>> \o stack[p]]
    /\ UNCHANGED <<ret, client>>

\* the caller makes the top-level call c, which starts at label; r is what the
\* call has handed back when it is over at once
BeginWith(p, c, label, rest, r) ==
    /\ pc[p] = "idle"
    /\ call' = [call EXCEPT ![p] = c]
    /\ pc' = [pc EXCEPT ![p] = label]
    /\ stack' = [stack EXCEPT ![p] = rest]
    /\ exc' = [exc EXCEPT ![p] = ""]
    /\ client' = [client EXCEPT ![p] = None]
    /\ ret' = [ret EXCEPT ![p] = r]
    /\ trace' = [trace EXCEPT ![p] = <<>>]
    /\ attempt' = [attempt EXCEPT ![p] = 0]
    /\ UNCHANGED <<cached_result, current_data, ttl, matching_keys>>

Begin(p, c, label, rest) == BeginWith(p, c, label, rest, RetNone)

\* a function that has asked for the client cannot use the server
Unavailable(p) == exc[p] # "" \/ client[p] = None \/ ~storeUp

\* what the except clauses return: lines 245-250, 315-320, 408-413, 439-444, 474-479
GbkExcept == RetNone
SdkExcept == RetBool(FALSE)
IncExcept == RetNone
InvExceptTrue == RetBool(TRUE)
InvExcept == RetBool(FALSE)
PatExcept == RetInt(0)

\* line 219 and line 285: if not cache_config.enabled
GbkDisabled == ~enabled
SdkDisabledIgnored == FALSE
SdkDisabled == ~enabled

\* line 390-391: data_dict["request_count"] = current_count + 1
IncrementedCountStale(d) == d.request_count
IncrementedCount(d) == d.request_count + 1

\* a further read of the key keeps the counters within the bounds: neither the
\* stored count nor a count a caller is about to write back has reached MaxCount
Countable(k) ==
    /\ store[k].present => (store[k].request_count < MaxCount /\ hits[k] < MaxCount)
    /\ \A q \in Procs : current_data[q].request_count < MaxCount

\* a second passes: the server expires what has no time left
Tick ==
    /\ \E k \in CacheKeys : store[k].present
    /\ store' = [k \in CacheKeys |->
                    IF store[k].present /\ store[k].ttl > 1
                    THEN [store[k] EXCEPT !.ttl = @ - 1]
                    ELSE NoEntry]
    /\ expired' = [k \in CacheKeys |-> expired[k] \/ (store[k].present /\ store[k].ttl <= 1)]
    /\ UNCHANGED <<keyVars, fileVars, connVars, procVars, localVars, cfgVars, hits, written>>

\* the environment: another writer puts a string that is not JSON under the key
Corrupt(k) ==
    /\ store[k].present /\ store[k].json
    /\ store' = [store EXCEPT ![k].json = FALSE]
    /\ UNCHANGED <<keyVars, fileVars, connVars, procVars, localVars, cfgVars, hits, written, expired>>

\* line 234 and line 387: json.loads of the stored string succeeds
DecodesAnything(e) == TRUE
Decodes(e) == e.json

\* get_cached_data_by_key(cache_key)
CallGetCachedDataByKey(p, k) ==
    /\ Countable(k)
    /\ Begin(p, [NoCall EXCEPT !.fn = "get_cached_data_by_key", !.cache_key = k],
             "gbk_enabled", <<"idle">>)
    /\ UNCHANGED <<keyVars, fileVars, connVars, cfgVars, storeVars>>

\* get_cached_data(cache_params, analysis_type), lines 263-271
CallGetCachedData(p, cache_params, analysis_type) ==
    LET k == generate_cache_key(cache_params)
        c == [NoCall EXCEPT !.fn = "get_cached_data", !.data = cache_params,
                            !.analysis_type = analysis_type, !.cache_key = k]
    IN  /\ k \in CacheKeys => Countable(k)
        /\ IF ~enabled
           THEN Begin(p, c, "idle", <<>>)
           ELSE IF k = TypeErrorRaised
           THEN BeginWith(p, c, "idle", <<>>, RetRaise("TypeError"))
           ELSE Begin(p, c, "gbk_enabled", <<"idle">>)
        /\ UNCHANGED <<keyVars, fileVars, connVars, cfgVars, storeVars>>

\* line 219-223
GbkEnabled(p) ==
    /\ pc[p] = "gbk_enabled"
    /\ IF GbkDisabled
       THEN ReturnWith(p, RetNone)
       ELSE /\ CallClient(p, "gbk_get")
            /\ UNCHANGED <<cached_result, current_data, ttl, matching_keys>>
    /\ UNCHANGED <<keyVars, fileVars, connVars, attempt, trace, exc, call, cfgVars, storeVars>>

\* line 224-243 with the except clauses of lines 245-250: client.get(cache_key)
GbkGet(p) ==
    LET k == call[p].cache_key IN
    /\ pc[p] = "gbk_get"
    /\ exc' = [exc EXCEPT ![p] = ""]
    /\ IF Unavailable(p)
       THEN ReturnWith(p, GbkExcept)
       ELSE IF ~store[k].present \/ ~Decodes(store[k])
       THEN ReturnWith(p, RetNone)
       ELSE /\ cached_result' = [cached_result EXCEPT ![p] = store[k]]
            /\ pc' = [pc EXCEPT ![p] = "grc_check"]
            /\ stack' = [stack EXCEPT ![p] = <<"inc_get", "gbk_return">> \o stack[p]]
            /\ UNCHANGED <<ret, client, current_data, ttl, matching_keys>>
    /\ UNCHANGED <<keyVars, fileVars, connVars, attempt, trace, call, cfgVars, storeVars>>

\* line 236-237: increment_request_count(cache_key); return data
GbkHitIfCounted(data, counted) == IF counted.kind = "int" THEN RetValue(data) ELSE RetNone
GbkHit(data, counted) == RetValue(data)

\* line 237: return data
GbkReturn(p) ==
    /\ pc[p] = "gbk_return"
    /\ ReturnWith(p, GbkHit(EntryAsPy(cached_result[p]), ret[p]))
    /\ hits' = [hits EXCEPT ![call[p].cache_key] = @ + 1]
    /\ UNCHANGED <<keyVars, fileVars, connVars, attempt, trace, exc, call, cfgVars, store, written, expired>>

\* increment_request_count(cache_key), called on its own
CallIncrementRequestCount(p, k) ==
    /\ Countable(k)
    /\ Begin(p, [NoCall EXCEPT !.fn = "increment_request_count", !.cache_key = k],
             "grc_check", <<"inc_get", "idle">>)
    /\ UNCHANGED <<keyVars, fileVars, connVars, cfgVars, storeVars>>

\* line 368-384: pipe.get(cache_key); pipe.execute()
IncGet(p) ==
    LET k == call[p].cache_key IN
    /\ pc[p] = "inc_get"
    /\ exc' = [exc EXCEPT ![p] = ""]
    /\ IF Unavailable(p)
       THEN ReturnWith(p, IncExcept)
       ELSE IF ~store[k].present \/ ~Decodes(store[k])
       THEN ReturnWith(p, RetNone)
       ELSE /\ current_data' = [current_data EXCEPT ![p] = store[k]]
            /\ Continue(p, "inc_ttl")
            /\ UNCHANGED <<cached_result, ttl, matching_keys>>
    /\ UNCHANGED <<keyVars, fileVars, connVars, attempt, trace, call, cfgVars, storeVars>>

\* line 387-395: ttl = client.ttl(cache_key); -2 when the key is gone
IncTtl(p) ==
    LET k == call[p].cache_key
        t == IF store[k].present THEN store[k].ttl ELSE -2
    IN  /\ pc[p] = "inc_ttl"
        /\ IF ~storeUp
           THEN ReturnWith(p, IncExcept)
           ELSE IF t > 0
           THEN /\ ttl' = [ttl EXCEPT ![p] = t]
                /\ Continue(p, "inc_expire")
                /\ UNCHANGED <<cached_result, current_data, matching_keys>>
           ELSE ReturnWith(p, RetInt(IncrementedCount(current_data[p])))
        /\ UNCHANGED <<keyVars, fileVars, connVars, attempt, trace, exc, call, cfgVars, storeVars>>

\* line 397-398: new_ttl = max(ttl, cache_config.expiration); client.expire(cache_key, new_ttl)
IncExpire(p) ==
    LET k == call[p].cache_key
        new_ttl == Max(ttl[p], expiration)
    IN  /\ pc[p] = "inc_expire"
        /\ IF ~storeUp
           THEN /\ ReturnWith(p, IncExcept)
                /\ UNCHANGED store
           ELSE /\ store' = IF store[k].present
                            THEN [store EXCEPT ![k].ttl = new_ttl]
                            ELSE store
                /\ Continue(p, "inc_setex")
                /\ UNCHANGED <<cached_result, current_data, ttl, matching_keys>>
        /\ UNCHANGED <<keyVars, fileVars, connVars, attempt, trace, exc, call, cfgVars, hits, written, expired>>

\* line 399-402: client.setex(cache_key, ttl, json.dumps(data_dict))
IncSetex(p) ==
    LET k == call[p].cache_key
        d == current_data[p]
    IN  /\ pc[p] = "inc_setex"
        /\ IF ~storeUp
           THEN /\ ReturnWith(p, IncExcept)
                /\ UNCHANGED <<store, expired>>
           ELSE /\ store' = [store EXCEPT
                                ![k] = Entry(d.data, d.cached_at, IncrementedCount(d), ttl[p])]
                /\ expired' = [expired EXCEPT ![k] = FALSE]
                /\ ReturnWith(p, RetInt(IncrementedCount(d)))
        /\ UNCHANGED <<keyVars, fileVars, connVars, attempt, trace, exc, call, cfgVars, hits, written>>

increment_request_count(p) == IncGet(p) \/ IncTtl(p) \/ IncExpire(p) \/ IncSetex(p)

\* store_data_with_key(cache_key, data, expiration)
CallStoreDataWithKey(p, k, data, e) ==
    /\ Begin(p, [NoCall EXCEPT !.fn = "store_data_with_key", !.cache_key = k,
                               !.data = data, !.expiration = e],
             "sdk_enabled", <<"idle">>)
    /\ UNCHANGED <<keyVars, fileVars, connVars, cfgVars, storeVars>>

\* store_data(data, analysis_type, expiration), lines 334-350
CallStoreData(p, data, analysis_type, e) ==
    LET k == generate_cache_key(WithType(data, analysis_type))
        c == [NoCall EXCEPT !.fn = "store_data", !.data = data, !.expiration = e,
                            !.analysis_type = analysis_type,
                            !.cache_key = IF data.t = "dict" THEN k ELSE NoKey]
    IN  /\ IF ~enabled \/ data.t # "dict" \/ k = TypeErrorRaised
           THEN Begin(p, c, "idle", <<>>)
           ELSE Begin(p, c, "sdk_enabled", <<"sd_return", "idle">>)
        /\ UNCHANGED <<keyVars, fileVars, connVars, cfgVars, storeVars>>

\* line 285-289
SdkEnabled(p) ==
    /\ pc[p] = "sdk_enabled"
    /\ IF SdkDisabled
       THEN ReturnWith(p, RetBool(FALSE))
       ELSE /\ CallClient(p, "sdk_setex")
            /\ UNCHANGED <<cached_result, current_data, ttl, matching_keys>>
    /\ UNCHANGED <<keyVars, fileVars, connVars, attempt, trace, exc, call, cfgVars, storeVars>>

\* line 308: exp_time = expiration if expiration is not None else cache_config.expiration
ExpTimeDefault(e) == expiration
ExpTime(e) == IF e # NoneArg THEN e ELSE expiration

\* line 290-313 with the except clauses of lines 315-320: client.setex(cache_key, exp_time, ...)
SdkSetex(p) ==
    LET k == call[p].cache_key
        exp_time == ExpTime(call[p].expiration)
    IN  /\ pc[p] = "sdk_setex"
        /\ exc' = [exc EXCEPT ![p] = ""]
        /\ IF Unavailable(p) \/ ~JsonSerializable(call[p].data) \/ exp_time <= 0
           THEN /\ ReturnWith(p, SdkExcept)
                /\ UNCHANGED <<store, hits, written, expired>>
           ELSE /\ store' = [store EXCEPT
                                ![k] = Entry(JsonRoundTrip(call[p].data), TimeNow, 1, exp_time)]
                /\ hits' = [hits EXCEPT ![k] = 0]
                /\ written' = [written EXCEPT ![k] = call[p].data]
                /\ expired' = [expired EXCEPT ![k] = FALSE]
                /\ ReturnWith(p, RetBool(TRUE))
        /\ UNCHANGED <<keyVars, fileVars, connVars, attempt, trace, call, cfgVars>>

\* line 351: return cache_key if success else None
SdReturn(p) ==
    /\ pc[p] = "sd_return"
    /\ ReturnWith(p, IF ret[p] = RetBool(TRUE) THEN RetKey(call[p].cache_key) ELSE RetNone)
    /\ UNCHANGED <<keyVars, fileVars, connVars, attempt, trace, exc, call, cfgVars, storeVars>>

\* line 431-437: result = client.delete(cache_key); ...; return True
InvResultIfDeleted(result) == RetBool(result > 0)
InvResult(result) == RetBool(TRUE)

\* invalidate_cache(cache_key)
CallInvalidateCache(p, k) ==
    /\ Begin(p, [NoCall EXCEPT !.fn = "invalidate_cache", !.cache_key = k],
             "grc_check", <<"inv_delete", "idle">>)
    /\ UNCHANGED <<keyVars, fileVars, connVars, cfgVars, storeVars>>

\* line 426-444: client.delete(cache_key)
InvDelete(p) ==
    LET k == call[p].cache_key IN
    /\ pc[p] = "inv_delete"
    /\ exc' = [exc EXCEPT ![p] = ""]
    /\ IF Unavailable(p)
       THEN /\ ReturnWith(p, InvExcept)
            /\ UNCHANGED store
       ELSE /\ store' = [store EXCEPT ![k] = NoEntry]
            /\ ReturnWith(p, InvResult(IF store[k].present THEN 1 ELSE 0))
    /\ UNCHANGED <<keyVars, fileVars, connVars, attempt, trace, call, cfgVars, hits, written, expired>>

\* invalidate_by_pattern(pattern)
CallInvalidateByPattern(p, pattern) ==
    /\ Begin(p, [NoCall EXCEPT !.fn = "invalidate_by_pattern", !.pattern = pattern],
             "grc_check", <<"pat_keys", "idle">>)
    /\ UNCHANGED <<keyVars, fileVars, connVars, cfgVars, storeVars>>

\* line 457-467: matching_keys = client.keys(pattern)
PatKeys(p) ==
    LET found == Matching(call[p].pattern, {k \in CacheKeys : store[k].present}) IN
    /\ pc[p] = "pat_keys"
    /\ exc' = [exc EXCEPT ![p] = ""]
    /\ IF Unavailable(p)
       THEN ReturnWith(p, PatExcept)
       ELSE IF found = {}
       THEN ReturnWith(p, RetInt(0))
       ELSE /\ matching_keys' = [matching_keys EXCEPT ![p] = found]
            /\ Continue(p, "pat_delete")
            /\ UNCHANGED <<cached_result, current_data, ttl>>
    /\ UNCHANGED <<keyVars, fileVars, connVars, attempt, trace, call, cfgVars, storeVars>>

\* line 470: deleted = client.delete(*matching_keys), the number of keys removed
PatDeletedMatched(found, gone) == Cardinality(found)
PatDeleted(found, gone) == Cardinality(gone)

\* line 470-472: deleted = client.delete(*matching_keys)
PatDelete(p) ==
    LET gone == {k \in matching_keys[p] : store[k].present} IN
    /\ pc[p] = "pat_delete"
    /\ IF ~storeUp
       THEN /\ ReturnWith(p, PatExcept)
            /\ UNCHANGED store
       ELSE /\ store' = [k \in CacheKeys |-> IF k \in gone THEN NoEntry ELSE store[k]]
            /\ ReturnWith(p, RetInt(PatDeleted(matching_keys[p], gone)))
    /\ UNCHANGED <<keyVars, fileVars, connVars, attempt, trace, exc, call, cfgVars, hits, written, expired>>

(***************************************************************************)
(* cache_decorator, lines 145-173: the wrapper of f, called as f(1).       *)
(***************************************************************************)
\* line 161-163: if cached_result is not None: return cached_result
WrapperHit(cached) == cached

\* line 146-160: the body at once when the cache is disabled, else the get
CallWrapper(p) ==
    LET c == [NoCall EXCEPT !.fn = "wrapper", !.cache_key = KeyFunc, !.data = FuncArgs] IN
    /\ Countable(KeyFunc)
    /\ IF ~enabled
       THEN BeginWith(p, c, "idle", <<>>, RetValue(FuncResult(FuncArgs)))
       ELSE Begin(p, c, "gbk_enabled", <<"wr_got", "idle">>)
    /\ UNCHANGED <<keyVars, fileVars, connVars, cfgVars, storeVars>>

\* line 161-170: return what the get found, or run the body and store its result
WrGot(p) ==
    /\ pc[p] = "wr_got"
    /\ IF ret[p] # RetNone
       THEN /\ ReturnWith(p, WrapperHit(ret[p]))
            /\ UNCHANGED call
       ELSE /\ call' = [call EXCEPT ![p].data = FuncResult(FuncArgs),
                                    ![p].expiration = expiration]
            /\ pc' = [pc EXCEPT ![p] = "sdk_enabled"]
            /\ stack' = [stack EXCEPT ![p] = <<"wr_stored">> \o stack[p]]
            /\ UNCHANGED <<ret, client, cached_result, current_data, ttl, matching_keys>>
    /\ UNCHANGED <<keyVars, fileVars, connVars, attempt, trace, exc, cfgVars, storeVars>>

\* line 172: return result
WrStored(p) ==
    /\ pc[p] = "wr_stored"
    /\ ReturnWith(p, RetValue(call[p].data))
    /\ UNCHANGED <<keyVars, fileVars, connVars, attempt, trace, exc, call, cfgVars, storeVars>>

(***************************************************************************)
(* CacheConfig, lines 30-46.                                               *)
(***************************************************************************)
ConfigCall(p, fn) ==
    /\ Begin(p, [NoCall EXCEPT !.fn = fn], "idle", <<>>)
    /\ UNCHANGED <<keyVars, fileVars, connVars, storeVars>>

disable(p) ==
    /\ ConfigCall(p, "disable")
    /\ enabled' = FALSE
    /\ UNCHANGED expiration
    /\ restored' = {}

enable(p) ==
    /\ ConfigCall(p, "enable")
    /\ enabled' = TRUE
    /\ UNCHANGED expiration
    /\ restored' = {}

set_expiration(p, seconds) ==
    /\ ConfigCall(p, "set_expiration")
    /\ expiration' = seconds
    /\ UNCHANGED enabled
    /\ restored' = {}

OffDefault ==
    {s \in {"enabled"} : enabled # ENABLE_CACHE}
        \cup {s \in {"expiration"} : expiration # CACHE_EXPIRATION_SECONDS}

reset_enabled_only(p) ==
    /\ ConfigCall(p, "reset")
    /\ enabled' = ENABLE_CACHE
    /\ UNCHANGED expiration
    /\ restored' = OffDefault
reset(p) ==
    /\ ConfigCall(p, "reset")
    /\ enabled' = ENABLE_CACHE
    /\ expiration' = CACHE_EXPIRATION_SECONDS
    /\ restored' = OffDefault

(***************************************************************************)
(* The file cache, lines 519-648.  A path is the directory, the name and   *)
(* the extension; a cached file is named by the SHA-256 digest of its      *)
(* identifier, which is taken to be free of collisions.  Times are whole   *)
(* days counted in seconds.                                                *)
(***************************************************************************)
MaxDays == 2

CACHE_DIR == "cache"
Identifiers == {"x"}
Extensions == {<<>>, <<"p", "n", "g">>, <<".", "p", "n", "g">>}
DaysArgs == {0, 1}
SecondsPerDay == 86400

NoPath == [dir |-> "", digest |-> "", name |-> "", ext |-> <<>>]
SourcePaths == {[dir |-> "tmp", digest |-> "", name |-> "s1", ext |-> <<>>]}
SubDir == [dir |-> CACHE_DIR, digest |-> "", name |-> "sub", ext |-> <<>>]
CacheRoot == [dir |-> "", digest |-> "", name |-> CACHE_DIR, ext |-> <<>>]

generate_file_cache_path(identifier, extension) ==
    LET filename == identifier
        ext == IF extension # <<>> /\ Head(extension) # "."
               THEN <<".">> \o extension
               ELSE extension
    IN  [dir |-> CACHE_DIR, digest |-> filename, name |-> "", ext |-> ext]

CachePaths == {generate_file_cache_path(i, e) : i \in Identifiers, e \in Extensions}
FilePaths == SourcePaths \cup CachePaths \cup {SubDir, CacheRoot}

NoFile == [kind |-> "none", mtime |-> 0]
RegularFile(mtime) == [kind |-> "file", mtime |-> mtime]
Directory(mtime) == [kind |-> "dir", mtime |-> mtime]

\* os.path.exists
Exists(fsys, path) == fsys[path].kind # "none"

NoFileCall ==
    [seq |-> 0, fn |-> "", source_path |-> NoPath, identifier |-> "", extension |-> <<>>,
     move |-> FALSE, max_age_days |-> 0, result |-> NoPath, count |-> 0,
     bad |-> NoPath, at |-> 0, op_failed |-> FALSE, raised |-> ""]
FileCall(fn) == [NoFileCall EXCEPT !.seq = 1 - fres.seq, !.fn = fn, !.at = now]

\* the cache directory holds one subdirectory; nothing is cached yet
FileInit ==
    /\ fs = [path \in FilePaths |->
                IF path \in {SubDir, CacheRoot} THEN Directory(0) ELSE NoFile]
    /\ now = 0
    /\ fres = NoFileCall

\* a regular file is where the cache directory should be
FileInitBlocked ==
    /\ fs = [path \in FilePaths |-> IF path = CacheRoot THEN RegularFile(0) ELSE NoFile]
    /\ now = 0
    /\ fres = NoFileCall

\* ensure_cache_dir_exists, lines 519-526: os.makedirs(CACHE_DIR, exist_ok=True)
\* raises when the path is taken by something that is no directory, and the
\* handler logs and raises again
MakedirsRaises(fsys) == fsys[CacheRoot].kind # "dir"

\* a day goes by
AdvanceClock ==
    /\ now < MaxDays * SecondsPerDay
    /\ now' = now + SecondsPerDay
    /\ UNCHANGED <<fs, fres>>
    /\ UNCHANGED <<keyVars, connVars, procVars, localVars, cfgVars, storeVars>>

\* a download writes the file a later cache_file call is handed
WriteSource(source_path) ==
    /\ fs' = [fs EXCEPT ![source_path] = RegularFile(now)]
    /\ UNCHANGED <<now, fres>>
    /\ UNCHANGED <<keyVars, connVars, procVars, localVars, cfgVars, storeVars>>

\* shutil.move of a file onto a file path: a rename, which leaves a file renamed
\* onto itself where it is
shutil_move_copies(fsys, src, dst) ==
    [fsys EXCEPT ![dst] = fsys[src]]
shutil_move(fsys, src, dst) ==
    IF src = dst THEN fsys
    ELSE [fsys EXCEPT ![dst] = fsys[src], ![src] = NoFile]

\* shutil.copy2: the content and the modification time
shutil_copy2(fsys, src, dst) ==
    [fsys EXCEPT ![dst] = fsys[src]]

\* cache_file, lines 573-609; `raises` is the file operation failing
cache_file(source_path, identifier, extension, move, raises) ==
    LET cache_path == generate_file_cache_path(identifier, extension)
        this == [FileCall("cache_file") EXCEPT !.source_path = source_path,
                    !.identifier = identifier, !.extension = extension, !.move = move]
    IN  /\ IF ~enabled
           THEN /\ ~raises
                /\ fres' = this
                /\ UNCHANGED fs
           ELSE IF MakedirsRaises(fs)
           THEN /\ ~raises
                /\ fres' = [this EXCEPT !.raised = "OSError"]
                /\ UNCHANGED fs
           ELSE IF ~Exists(fs, source_path)
           THEN /\ ~raises
                /\ fres' = this
                /\ UNCHANGED fs
           ELSE IF raises \/ (~move /\ source_path = cache_path)
           THEN /\ fres' = [this EXCEPT !.op_failed = TRUE]
                /\ UNCHANGED fs
           ELSE /\ fs' = IF move THEN shutil_move(fs, source_path, cache_path)
                                 ELSE shutil_copy2(fs, source_path, cache_path)
                /\ fres' = [this EXCEPT !.result = cache_path]
        /\ UNCHANGED now
        /\ UNCHANGED <<keyVars, connVars, procVars, localVars, cfgVars, storeVars>>

\* check_file_cache, lines 550-571, as the value it returns
check_file_cache(fsys, on, identifier, extension) ==
    LET cache_path == generate_file_cache_path(identifier, extension)
    IN  IF ~on THEN NoPath
        ELSE IF Exists(fsys, cache_path) THEN cache_path
        ELSE NoPath

CheckFileCache(identifier, extension) ==
    /\ fres' = [FileCall("check_file_cache") EXCEPT !.identifier = identifier,
                    !.extension = extension,
                    !.result = check_file_cache(fs, enabled, identifier, extension)]
    /\ UNCHANGED <<fs, now>>
    /\ UNCHANGED <<keyVars, connVars, procVars, localVars, cfgVars, storeVars>>

\* the test of line 638
ExpiredInclusive(file_age, max_age_seconds) == file_age >= max_age_seconds
Expired(file_age, max_age_seconds) == file_age > max_age_seconds

\* os.listdir(CACHE_DIR): the names in the cache directory
ListDir(fsys) == {path \in FilePaths : path.dir = CACHE_DIR /\ Exists(fsys, path)}

\* the orders os.listdir may return the names in
RECURSIVE Orders(_)
Orders(names) ==
    IF names = {} THEN {<<>>}
    ELSE UNION {{<<first>> \o rest : rest \in Orders(names \ {first})} : first \in names}

\* the loop of lines 628-640 inside the try of line 627: the file `bad` makes
\* os.path.getmtime or os.remove raise, and the handler of lines 646-648
\* returns the count reached
RECURSIVE Sweep(_, _, _, _, _, _)
Sweep(names, fsys, removed_count, max_age_seconds, bad, how) ==
    IF names = <<>> THEN [fs |-> fsys, removed_count |-> removed_count]
    ELSE LET file_path == Head(names)
         IN  IF fsys[file_path].kind = "dir"
             THEN Sweep(Tail(names), fsys, removed_count, max_age_seconds, bad, how)
             ELSE IF file_path = bad /\ how = "getmtime"
             THEN [fs |-> fsys, removed_count |-> removed_count]
             ELSE IF ~Expired(now - fsys[file_path].mtime, max_age_seconds)
             THEN Sweep(Tail(names), fsys, removed_count, max_age_seconds, bad, how)
             ELSE IF file_path = bad
             THEN [fs |-> fsys, removed_count |-> removed_count]
             ELSE Sweep(Tail(names), [fsys EXCEPT ![file_path] = NoFile],
                        removed_count + 1, max_age_seconds, bad, how)

\* clean_expired_files, lines 611-648
clean_expired_files(max_age_days, bad, how) ==
    \E names \in Orders(ListDir(fs)) :
        LET max_age_seconds == max_age_days * SecondsPerDay
            swept == Sweep(names, fs, 0, max_age_seconds, bad, how)
            this == [FileCall("clean_expired_files") EXCEPT
                        !.max_age_days = max_age_days, !.bad = bad]
        IN  /\ IF MakedirsRaises(fs)
               THEN /\ fres' = [this EXCEPT !.raised = "OSError"]
                    /\ UNCHANGED fs
               ELSE /\ fs' = swept.fs
                    /\ fres' = [this EXCEPT !.count = swept.removed_count]
            /\ UNCHANGED now
            /\ UNCHANGED <<keyVars, connVars, procVars, localVars, cfgVars, storeVars>>

(***************************************************************************)
(* Specifications.                                                         *)
(***************************************************************************)
ExpirationArgs == {NoneArg, 0, 1}
ByKeyKeys == {Key1}

\* the calls one caller makes, and the steps of the functions it is in
Calls(p) ==
    \/ \E k \in ByKeyKeys : CallGetCachedDataByKey(p, k)
    \/ \E at \in AnalysisTypes : CallGetCachedData(p, Payload1, at)
    \/ \E k \in ByKeyKeys, d \in Payloads, e \in ExpirationArgs : CallStoreDataWithKey(p, k, d, e)
    \/ \E d \in {Payload1, PayloadTuple}, at \in AnalysisTypes, e \in ExpirationArgs :
            CallStoreData(p, d, at, e)
    \/ \E k \in ByKeyKeys : CallInvalidateCache(p, k)
    \/ \E pattern \in Patterns : CallInvalidateByPattern(p, pattern)

ConfigCalls(p) ==
    \/ disable(p)
    \/ enable(p)
    \/ \E seconds \in 1 .. MaxTTL : set_expiration(p, seconds)
    \/ reset(p)

StoreSteps(p) ==
    \/ GbkEnabled(p) \/ GbkGet(p) \/ GbkReturn(p)
    \/ increment_request_count(p)
    \/ SdkEnabled(p) \/ SdkSetex(p) \/ SdReturn(p)
    \/ InvDelete(p) \/ PatKeys(p) \/ PatDelete(p)

\* one caller, its calls one after the other, the server reachable
Init ==
    /\ KeyIdle
    /\ ConnInit /\ REDIS_URL /\ storeUp
    /\ ProcInit /\ CfgInit /\ StoreInit /\ FileInit
Next ==
    \/ Tick
    \/ Calls("p1") \/ ConfigCalls("p1") \/ StoreSteps("p1")
    \/ GrcCheck("p1") \/ GrcConnect("p1") \/ GrcPing("p1")
    \/ GrcReturnNew("p1") \/ GrcReturn("p1")
Spec == Init /\ [][Next]_vars

\* one caller, the server going away and coming back at any moment, and
\* another writer spoiling entries
InitFail ==
    /\ KeyIdle
    /\ ConnInit
    /\ ProcInit /\ CfgInit /\ StoreInit /\ FileInit
FailCalls(p) ==
    \/ CallGetCachedDataByKey(p, Key1)
    \/ CallIncrementRequestCount(p, Key1)
    \/ \E d \in {Payload1, PyObject} : CallStoreDataWithKey(p, Key1, d, NoneArg)
    \/ \E at \in AnalysisTypes : CallStoreData(p, Payload1, at, NoneArg)
    \/ CallInvalidateCache(p, Key1)
    \/ \E pattern \in Patterns : CallInvalidateByPattern(p, pattern)
NextFail ==
    \/ StoreFlip
    \/ Tick
    \/ \E k \in CacheKeys : Corrupt(k)
    \/ FailCalls("p1") \/ StoreSteps("p1")
    \/ get_redis_client("p1")
SpecFail == InitFail /\ [][NextFail]_vars

\* two callers at once on one key, the server reachable
RaceCalls(p) ==
    \/ CallGetCachedDataByKey(p, Key1)
    \/ CallStoreDataWithKey(p, Key1, Payload1, NoneArg)
RaceSteps(p) ==
    \/ GbkEnabled(p) \/ GbkGet(p) \/ GbkReturn(p)
    \/ increment_request_count(p)
    \/ SdkEnabled(p) \/ SdkSetex(p)
    \/ GrcCheck(p) \/ GrcConnect(p) \/ GrcPing(p) \/ GrcReturnNew(p) \/ GrcReturn(p)
InitRace == Init
NextRace ==
    \/ Tick
    \/ \E p \in Procs : RaceCalls(p) \/ RaceSteps(p)
SpecRace == InitRace /\ [][NextRace]_vars

\* a reader and a writer at once on one key, the server reachable: the reader
\* gets, the writer puts one of two payloads or invalidates
StaleReader(p) ==
    \/ CallGetCachedDataByKey(p, Key1)
    \/ GbkEnabled(p) \/ GbkGet(p) \/ GbkReturn(p)
    \/ increment_request_count(p)
StaleWriter(p) ==
    \/ \E d \in {Payload1, Payload2} : CallStoreDataWithKey(p, Key1, d, NoneArg)
    \/ CallInvalidateCache(p, Key1)
    \/ SdkEnabled(p) \/ SdkSetex(p)
    \/ InvDelete(p)
InitStale == Init
NextStale ==
    \/ StaleReader("p1")
    \/ StaleWriter("p2")
    \/ \E p \in Procs : GrcCheck(p) \/ GrcConnect(p) \/ GrcPing(p) \/ GrcReturnNew(p) \/ GrcReturn(p)
SpecStale == InitStale /\ [][NextStale]_vars

\* one caller of the wrapped function, the server reachable
DecoSteps(p) ==
    \/ CallWrapper(p) \/ WrGot(p) \/ WrStored(p)
    \/ GbkEnabled(p) \/ GbkGet(p) \/ GbkReturn(p)
    \/ increment_request_count(p)
    \/ SdkEnabled(p) \/ SdkSetex(p)
    \/ GrcCheck(p) \/ GrcConnect(p) \/ GrcPing(p) \/ GrcReturnNew(p) \/ GrcReturn(p)
InitDeco == Init
NextDeco ==
    \/ Tick
    \/ ConfigCalls("p1")
    \/ DecoSteps("p1")
SpecDeco == InitDeco /\ [][NextDeco]_vars

\* key derivation on its own
InitKey ==
    /\ KeyInit
    /\ ConnInit /\ REDIS_URL /\ storeUp
    /\ ProcInit /\ CfgInit /\ StoreInit /\ FileInit
NextKey == GenerateKeys
SpecKey == InitKey /\ [][NextKey]_vars

\* concurrent callers of get_redis_client
InitConn ==
    /\ KeyIdle
    /\ ConnInit
    /\ ProcInit /\ CfgInit /\ StoreInit /\ FileInit
NextConn ==
    \/ StoreFlip
    \/ \E p \in Procs : CallGetRedisClient(p) \/ get_redis_client(p) \/ GrcDone(p)
SpecConn == InitConn /\ [][NextConn]_vars

\* the file cache: one caller, files being downloaded, the days going by; the
\* cache directory is there, or a regular file is in its place
FileCalls ==
    \/ \E source_path \in SourcePaths \cup CachePaths, identifier \in Identifiers,
          extension \in Extensions, move \in BOOLEAN, raises \in BOOLEAN :
            cache_file(source_path, identifier, extension, move, raises)
    \/ \E identifier \in Identifiers, extension \in Extensions :
            CheckFileCache(identifier, extension)
    \/ \E max_age_days \in DaysArgs, bad \in (CachePaths \cap ListDir(fs)) \cup {NoPath} :
        \E how \in IF bad = NoPath THEN {"remove"} ELSE {"getmtime", "remove"} :
            clean_expired_files(max_age_days, bad, how)
InitFile ==
    /\ KeyIdle
    /\ ConnInit /\ REDIS_URL /\ storeUp
    /\ ProcInit /\ CfgInit /\ StoreInit
    /\ (FileInit \/ FileInitBlocked)
NextFile ==
    \/ AdvanceClock
    \/ \E source_path \in SourcePaths : WriteSource(source_path)
    \/ disable("p1") \/ enable("p1")
    \/ FileCalls
SpecFile == InitFile /\ [][NextFile]_vars

KeysDerived == keyA # NoKey

\* C2: two mappings holding the same key/value pairs in any insertion order, at
\* any nesting depth, derive the same key
C2_MappingKeyDeterminism ==
    (KeysDerived /\ inA.t = "dict") => keyA = keyB

C2_Witness ==
    /\ KeysDerived /\ inA.t = "dict" /\ inA # inB
    /\ \E i \in DOMAIN inA.kids : inA.kids[i].val.t = "tuple"
    /\ keyA = keyB

\* C3: two sequences that are equal after key-order normalization of every
\* mapping they contain, at any depth, derive the same key
C3_SequenceKeyDeterminism ==
    (KeysDerived /\ inA.t \in {"list", "tuple"} /\ Normalized(inA) = Normalized(inB))
        => keyA = keyB

\* C16: _generate_cache_key returns a key for every input, also for a mapping
\* or a sequence that holds a value json cannot encode; it never raises
C16_KeyNeverFails ==
    KeysDerived => keyA # TypeErrorRaised

(***************************************************************************)
(* Connection manager.                                                     *)
(***************************************************************************)
\* the events of a get_redis_client call in which every attempt fails with a
\* transient connection error
AllAttemptsFail ==
    << <<"connect", 0>>, <<"ping_ConnectionError", 0>>, <<"sleep", 1>>,
       <<"connect", 1>>, <<"ping_ConnectionError", 1>>, <<"sleep", 2>>,
       <<"connect", 2>>, <<"ping_ConnectionError", 2>> >>

PingEvents == {"ping_ok", "ping_ConnectionError", "ping_Exception"}

\* C9: get_redis_client makes at most 3 attempts, sleeps 1s after the first
\* transient failure and 2s after the second and not after the third, raises
\* for exhaustion only once the third attempt has failed, and makes no further
\* attempt after one that succeeded
C9_RetryBackoff ==
    \A p \in Procs :
        LET T == trace[p] IN
        /\ Len(T) <= Len(AllAttemptsFail)
        /\ \A i \in 1 .. Len(T) :
              /\ T[i][1] \notin PingEvents => T[i] = AllAttemptsFail[i]
              /\ T[i][1] \in PingEvents =>
                    /\ AllAttemptsFail[i][1] = "ping_ConnectionError"
                    /\ T[i][2] = AllAttemptsFail[i][2]
              /\ T[i][1] \in {"ping_ok", "ping_Exception"} => i = Len(T)
        /\ (/\ exc[p] = "ConnectionError"
            /\ T # <<>>
            /\ T[Len(T)][1] = "ping_ConnectionError") => T = AllAttemptsFail
        /\ (T # <<>> /\ T[Len(T)][1] = "ping_ok") => exc[p] = ""

C9_Witness ==
    \E p \in Procs :
        /\ trace[p] = AllAttemptsFail
        /\ exc[p] = "ConnectionError"
        /\ pc[p] = "grc_done"

\* C10: no caller of get_redis_client is handed a client whose ping() has not
\* succeeded
C10_OnlyProbedClients ==
    \A p \in Procs : client[p] # None => client[p] \in pinged

\* C11: once get_redis_client has returned a client, every later call returns
\* that same client (all clients ever handed out are one client) and a call
\* that reaches line 54 after that makes no connection attempt and no probe
C11_SingletonClient ==
    [][/\ Cardinality(handed') <= 1
       /\ \A p \in Procs :
            (handed # {} /\ pc[p] = "grc_check" /\ pc'[p] # "grc_check")
                => pc'[p] = "grc_return"]_vars


(***************************************************************************)
(* Entry store.                                                            *)
(***************************************************************************)
GetFns == {"get_cached_data_by_key", "get_cached_data"}
PutFns == {"store_data_with_key", "store_data"}

\* C1: a get that directly follows the put of a payload under the same key and
\* hits returns a value equal to that payload, the data field alone
C1_RoundTrip ==
    \A p \in Procs :
        LET k == call[p].cache_key IN
        (/\ pc[p] = "idle"
         /\ call[p].fn \in GetFns
         /\ ret[p].kind = "value"
         /\ hits[k] = 1) => ret[p] = RetValue(written[k])

PutRewrites(k) ==
    \E p \in Procs : pc[p] = "sdk_setex" /\ pc'[p] # "sdk_setex" /\ call[p].cache_key = k

\* C5: under any interleaving of callers the stored request_count is at least 1
\* and never decreases from one state of the store to the next, except when a
\* put rewrites the key
C5_CountMonotone ==
    [][\A k \in CacheKeys :
          /\ store'[k].present => store'[k].request_count >= 1
          /\ (store[k].present /\ store'[k].present /\ ~PutRewrites(k))
                => store'[k].request_count >= store[k].request_count]_vars

\* C6: when the increment of a hit rewrites an entry whose remaining time to
\* live it read as t > 0, the entry is left with max(t, cache_config.expiration)
C6_TtlExtendedToDefault ==
    [][\A p \in Procs :
          (pc[p] = "inc_setex" /\ pc'[p] # "inc_setex" /\ storeUp)
            => /\ store'[call[p].cache_key].present
               /\ store'[call[p].cache_key].ttl = Max(ttl[p], expiration)]_vars

\* C7: while cache_config.enabled is false no step writes an entry (entries are
\* at most deleted or aged), and a get made then returns None whatever the
\* store holds
C7_DisabledIsNoOp ==
    [][/\ ~enabled =>
            \A k \in CacheKeys :
                store'[k].present =>
                    /\ store[k].present
                    /\ store'[k].data = store[k].data
                    /\ store'[k].request_count = store[k].request_count
                    /\ store'[k].ttl <= store[k].ttl
       /\ \A p \in Procs :
            (~enabled' /\ pc'[p] = "idle" /\ call'[p].fn \in GetFns) => ret'[p] = RetNone
      ]_vars

C7_Witness ==
    \E p \in Procs :
        /\ ~enabled
        /\ pc[p] = "idle"
        /\ call[p].fn = "store_data_with_key"
        /\ JsonSerializable(call[p].data)
        /\ store[call[p].cache_key].present
        /\ store[call[p].cache_key].data # JsonRoundTrip(call[p].data)
        /\ ret[p] = RetBool(FALSE)

\* the value a function hands back when the store fails it
SafeDefault(label) ==
    CASE label \in {"gbk_get", "inc_get", "inc_ttl", "inc_expire", "inc_setex"} -> RetNone
      [] label \in {"sdk_setex", "inv_delete"} -> RetBool(FALSE)
      [] label \in {"pat_keys", "pat_delete"} -> RetInt(0)

ServerLabels ==
    {"gbk_get", "inc_get", "inc_ttl", "inc_expire", "inc_setex", "sdk_setex",
     "inv_delete", "pat_keys", "pat_delete"}

\* C8: a step of get, put, invalidate, invalidate_by_pattern or increment that
\* finds the client or the server failing makes its function return its safe
\* default (None, False, 0); store_data turns the False into None; and no
\* exception reaches the caller
C8_FailuresBecomeDefaults ==
    [][\A p \in Procs :
          /\ (pc[p] \in ServerLabels /\ Unavailable(p) /\ pc'[p] # pc[p])
                => /\ pc'[p] = Head(stack[p])
                   /\ ret'[p] = SafeDefault(pc[p])
                   /\ exc'[p] = ""
          /\ (pc[p] = "sd_return" /\ ret[p] = RetBool(FALSE) /\ pc'[p] = "idle")
                => ret'[p] = RetNone
          /\ pc'[p] = "idle"
                => /\ exc'[p] = ""
                   /\ ret'[p].kind \in {"None", "bool", "int", "value", "key"}
      ]_vars

C8_Witness ==
    \E p \in Procs :
        /\ pc[p] = "idle"
        /\ call[p].fn = "invalidate_cache"
        /\ ret[p] = RetBool(FALSE)
        /\ trace[p] = AllAttemptsFail

IncLabels == {"inc_get", "inc_ttl", "inc_expire", "inc_setex"}

\* C12: a step of increment_request_count taken when the key is no longer in
\* the store (it expired or was deleted after the read that triggered the
\* increment) writes nothing, and when the function returns from there it
\* returns None, not a count
C12_IncrementOfMissingKeyIsNoOp ==
    [][\A p \in Procs :
          (/\ pc[p] \in IncLabels
           /\ pc'[p] # pc[p]
           /\ ~store[call[p].cache_key].present)
            => /\ ~store'[call[p].cache_key].present
               /\ pc'[p] \notin IncLabels => ret'[p] = RetNone]_vars

\* a caller touches the key in this step: a put or an increment writes it
Touches(k) ==
    \E p \in Procs :
        /\ pc[p] \in {"sdk_setex", "inc_expire", "inc_setex"}
        /\ pc'[p] # pc[p]
        /\ call[p].cache_key = k

\* C13: a put leaves the entry with the time to live T it was given (the
\* default when none was given); an entry nobody touches never gains time and
\* stays absent once it has expired; and a get made after the expiry returns
\* None, starts no increment and leaves the store as it is
C13_ExpiredEntryStaysGone ==
    [][/\ \A p \in Procs :
            LET k == call[p].cache_key
                T == IF call[p].expiration # NoneArg THEN call[p].expiration ELSE expiration
            IN  /\ (pc[p] = "sdk_setex" /\ pc'[p] # "sdk_setex" /\ ret'[p] = RetBool(TRUE))
                      => (store'[k].present /\ store'[k].ttl = T)
                /\ (pc[p] = "gbk_get" /\ pc'[p] # "gbk_get" /\ expired[k])
                      => /\ ret'[p] = RetNone
                         /\ pc'[p] = Head(stack[p])
                         /\ store' = store
       /\ \A k \in CacheKeys :
            ~Touches(k) =>
                /\ (store[k].present /\ store'[k].present) => store'[k].ttl <= store[k].ttl
                /\ ~store[k].present => ~store'[k].present
                /\ expired[k] => expired'[k]
      ]_vars

C13_Witness ==
    \E p \in Procs :
        LET k == call[p].cache_key IN
        /\ pc[p] = "idle"
        /\ call[p].fn = "get_cached_data_by_key"
        /\ enabled
        /\ written[k] = Payload1
        /\ hits[k] = 0
        /\ expired[k]
        /\ ~store[k].present
        /\ ret[p] = RetNone

\* C14: with the store reachable invalidate_cache returns True whether or not
\* the key existed, leaves the key absent and every other key as it was (so a
\* second invalidate changes nothing and returns True again), and the get
\* that follows it misses
C14_InvalidateIdempotent ==
    [][\A p \in Procs :
          LET k == call[p].cache_key IN
          /\ (pc[p] = "inv_delete" /\ pc'[p] # "inv_delete" /\ ~Unavailable(p))
                => /\ ret'[p] = RetBool(TRUE)
                   /\ ~store'[k].present
                   /\ \A j \in CacheKeys \ {k} : store'[j] = store[j]
                   /\ ~store[k].present => store' = store
          /\ (pc'[p] = "idle" /\ call'[p].fn = "invalidate_cache" /\ ret'[p] = RetBool(TRUE))
                => ~store'[call'[p].cache_key].present
          /\ (pc[p] = "gbk_get" /\ pc'[p] # "gbk_get" /\ ~store[k].present)
                => (ret'[p] = RetNone /\ pc'[p] = Head(stack[p]))
      ]_vars

\* the second invalidate of a key that was written once has returned
C14_Witness ==
    \E p \in Procs :
        LET k == call[p].cache_key IN
        /\ pc[p] = "idle"
        /\ call[p].fn = "invalidate_cache"
        /\ ret[p] = RetBool(TRUE)
        /\ written[k] = Payload1
        /\ ~expired[k]
        /\ ~store[k].present
        /\ trace[p] = <<>>

\* C15: invalidate_by_pattern removes every key its pattern matches and no
\* other key, and returns the number of keys it removed; it returns 0 and
\* removes nothing when no key matches or the store is unavailable
C15_PatternRemovesMatches ==
    [][\A p \in Procs :
          LET matched == Matching(call[p].pattern, CacheKeys)
              removed == {k \in CacheKeys : store[k].present /\ ~store'[k].present}
          IN  /\ (pc[p] = "pat_delete" /\ pc'[p] # "pat_delete" /\ storeUp)
                    => /\ \A k \in matched : ~store'[k].present
                       /\ \A k \in CacheKeys \ matched : store'[k] = store[k]
                       /\ ret'[p] = RetInt(Cardinality(removed))
              /\ (pc[p] = "pat_keys" /\ pc'[p] = Head(stack[p]) /\ ~Unavailable(p))
                    => /\ \A k \in matched : ~store[k].present
                       /\ store' = store
                       /\ ret'[p] = RetInt(0)
              /\ (/\ pc[p] \in {"pat_keys", "pat_delete"}
                  /\ pc'[p] # pc[p]
                  /\ (IF pc[p] = "pat_keys" THEN Unavailable(p) ELSE ~storeUp))
                    => /\ store' = store
                       /\ ret'[p] = RetInt(0)
      ]_vars

\* a pattern that matches one of two stored keys has removed that one
C15_Witness ==
    \E p \in Procs :
        /\ pc[p] = "idle"
        /\ call[p].fn = "invalidate_by_pattern"
        /\ call[p].pattern = "one*"
        /\ ret[p] = RetInt(1)
        /\ ~store[Key1].present
        /\ store[Key1Typed].present


\* a step of cache_file that handed back a path
Cached == fres'.seq # fres.seq /\ fres'.fn = "cache_file" /\ fres'.result # NoPath

\* C17: with the cache enabled, once cache_file(src, id, ext) has returned a
\* path p, p is the path computed for (id, ext), check_file_cache(id, ext)
\* returns p and the file is there; after a move the source path is gone,
\* after a copy it is still there
C17_StoreThenCheck ==
    [][Cached =>
        LET p == fres'.result
            src == fres'.source_path
        IN  /\ p = [dir |-> CACHE_DIR, digest |-> fres'.identifier, name |-> "",
                    ext |-> IF fres'.extension = <<>> THEN <<>> ELSE <<".", "p", "n", "g">>]
            /\ check_file_cache(fs', enabled', fres'.identifier, fres'.extension) = p
            /\ Exists(fs', p)
            /\ fres'.move => ~Exists(fs', src)
            /\ ~fres'.move => Exists(fs', src)]_vars

\* C17, amended: the same, except that a file moved onto its own cache path
\* stays where it is
C17_StoreThenCheckUnlessSamePath ==
    [][Cached =>
        LET p == fres'.result
            src == fres'.source_path
        IN  /\ p = [dir |-> CACHE_DIR, digest |-> fres'.identifier, name |-> "",
                    ext |-> IF fres'.extension = <<>> THEN <<>> ELSE <<".", "p", "n", "g">>]
            /\ check_file_cache(fs', enabled', fres'.identifier, fres'.extension) = p
            /\ Exists(fs', p)
            /\ (fres'.move /\ src # p) => ~Exists(fs', src)
            /\ ~fres'.move => Exists(fs', src)]_vars

\* a file has just been moved into the cache from somewhere else
C17_Witness ==
    /\ fres.fn = "cache_file" /\ fres.move /\ fres.at = now
    /\ fres.result # NoPath /\ fres.result # fres.source_path
    /\ fres.extension = <<"p", "n", "g">>
    /\ Exists(fs, fres.result) /\ ~Exists(fs, fres.source_path)
    /\ check_file_cache(fs, enabled, fres.identifier, fres.extension) = fres.result

\* a step of clean_expired_files
Swept == fres'.seq # fres.seq /\ fres'.fn = "clean_expired_files"

\* the regular files directly inside the cache directory that are older than
\* max_age_days days
OlderThan(max_age_days) ==
    {path \in FilePaths :
        /\ path.dir = CACHE_DIR
        /\ fs[path].kind = "file"
        /\ now - fs[path].mtime > max_age_days * SecondsPerDay}

\* C18: when no file operation fails, clean_expired_files(d) removes exactly
\* the regular files directly inside the cache directory whose age is strictly
\* greater than d days, keeps a file whose age equals the threshold, removes
\* no subdirectory, and returns the number of files it removed
C18_EvictsExactlyTheOlder ==
    [][(Swept /\ fres'.bad = NoPath) =>
        /\ \A path \in FilePaths :
                fs'[path] = IF path \in OlderThan(fres'.max_age_days) THEN NoFile ELSE fs[path]
        /\ fres'.count = Cardinality(OlderThan(fres'.max_age_days))
        /\ fs'[SubDir] = fs[SubDir]]_vars

\* a sweep has just removed one file and kept a file exactly at the threshold
\* and a subdirectory older than the threshold
C18_Witness ==
    /\ fres.fn = "clean_expired_files" /\ fres.at = now /\ fres.bad = NoPath
    /\ fres.max_age_days >= 1
    /\ fres.count = 1
    /\ \E path \in CachePaths :
            /\ fs[path].kind = "file"
            /\ now - fs[path].mtime = fres.max_age_days * SecondsPerDay
    /\ fs[SubDir].kind = "dir"
    /\ now - fs[SubDir].mtime > fres.max_age_days * SecondsPerDay

\* C19: when examining or removing one file fails during clean_expired_files,
\* that file is skipped and the sweep goes on: every other file older than the
\* threshold is removed and counted
C19_SweepSkipsFailingFile ==
    [][(Swept /\ fres'.bad # NoPath) =>
        LET others == OlderThan(fres'.max_age_days) \ {fres'.bad}
        IN  /\ \A path \in others : fs'[path] = NoFile
            /\ fres'.count = Cardinality(others)]_vars

\* C20: once reset has run, whatever disable, enable and set_expiration calls
\* came before it, enabled and expiration are back at the defaults read from
\* the environment; disable and enable leave expiration as it was, and
\* set_expiration leaves enabled as it was
C20_ResetAndFrames ==
    [][\A p \in Procs :
        LET fn == call'[p].fn
        IN  /\ fn = "reset" =>
                (enabled' = ENABLE_CACHE /\ expiration' = CACHE_EXPIRATION_SECONDS)
            /\ fn = "disable" => (~enabled' /\ expiration' = expiration)
            /\ fn = "enable" => (enabled' /\ expiration' = expiration)
            /\ fn = "set_expiration" => enabled' = enabled]_vars

\* reset has just run with the cache disabled and the expiration changed
C20_Witness ==
    /\ call["p1"].fn = "reset"
    /\ restored = {"enabled", "expiration"}
    /\ enabled = ENABLE_CACHE /\ expiration = CACHE_EXPIRATION_SECONDS

\* the statements of the connect and retry loop, lines 62-93
GrcLoop == {"grc_connect", "grc_ping", "grc_sleep", "grc_return_new"}

\* C22: while the global is unset at most one caller is inside the connect and
\* retry loop of get_redis_client, so at most one client is being created, and
\* the callers that hold a client hold the same one
C22_GuardedInitialization ==
    /\ Cardinality({p \in Procs : pc[p] \in GrcLoop}) <= 1
    /\ \A p, q \in Procs :
            (client[p] # None /\ client[q] # None) => client[p] = client[q]

\* C23: after a get_redis_client call has run out of attempts the global is
\* None until a later call connects; that call counts its attempts from 0, and
\* when its ping is answered the client it is about to return has been probed
C23_NotPoisoned ==
    exhausted =>
        /\ (\A p \in Procs : pc[p] \notin GrcLoop) => redis_client = None
        /\ \A p \in Procs :
            /\ pc[p] = "grc_connect" =>
                    attempt[p] = Cardinality({i \in DOMAIN trace[p] : trace[p][i][1] = "connect"})
            /\ pc[p] \in GrcLoop => attempt[p] < max_retries
            /\ pc[p] = "grc_return_new" =>
                    (redis_client # None /\ redis_client \in pinged)

\* a call made after one that ran out of attempts has connected at its first
\* attempt and is about to return the probed client
C23_Witness ==
    /\ exhausted
    /\ pc["p1"] = "grc_return_new"
    /\ trace["p1"] = << <<"connect", 0>>, <<"ping_ok", 0>> >>
    /\ redis_client \in pinged

\* C30: an attempt that fails with anything but a connection error ends the
\* call at once: ConnectionError is raised, the global is None, and neither a
\* sleep nor a further attempt follows
C30_NoRetryOnOtherErrors ==
    [][\A p \in Procs :
        (/\ Len(trace'[p]) = Len(trace[p]) + 1
         /\ trace'[p][Len(trace'[p])][1] = "ping_Exception") =>
            /\ exc'[p] = "ConnectionError"
            /\ redis_client' = None
            /\ pc'[p] \notin GrcLoop
            /\ \A i \in DOMAIN trace[p] : trace'[p][i] = trace[p][i]]_vars

\* the first attempt failed with another error and the call is over
C30_Witness ==
    \E p \in Procs :
        /\ trace[p] = << <<"connect", 0>>, <<"ping_Exception", 0>> >>
        /\ exc[p] = "ConnectionError"
        /\ pc[p] = "grc_done"
        /\ redis_client = None

\* C27: a get_cached_data(d, t) made while the entry that store_data(d, t)
\* wrote is in the store is a hit, for the empty and the non-empty t alike
C27_ReadWriteKeySymmetry ==
    \A p \in Procs :
        LET k == generate_cache_key(WithType(call[p].data, call[p].analysis_type))
        IN  (/\ pc[p] = "idle"
             /\ call[p].fn = "get_cached_data"
             /\ enabled
             /\ k \in CacheKeys
             /\ store[k].present) => ret[p].kind = "value"

\* C29: a get whose client.get found the entry returns that entry, whatever
\* became of the increment that followed: a store error, or the key expired
\* or gone in between, never turns the hit into None or into an exception
C29_HitSurvivesIncrement ==
    [][\A p \in Procs :
        (/\ call[p].fn \in GetFns
         /\ pc[p] # "idle" /\ pc'[p] = "idle"
         /\ cached_result[p].present) =>
            ret'[p] = RetValue(EntryAsPy(cached_result[p]))]_vars

\* the first hit since the put has been returned and the stored count is
\* still 1: the increment of that hit did not take place
C29_Witness ==
    LET k == call["p1"].cache_key IN
    /\ pc["p1"] = "idle"
    /\ call["p1"].fn = "get_cached_data_by_key"
    /\ ret["p1"].kind = "value"
    /\ hits[k] = 1
    /\ store[k].present /\ store[k].request_count = 1

\* C24: a get that reads a stored value that is not JSON returns None without
\* raising and without going on to the increment, and leaves the stored value
\* and its time to live as they were
C24_CorruptValueIsAMiss ==
    [][\A p \in Procs :
        LET k == call[p].cache_key IN
        (/\ call[p].fn \in GetFns
         /\ pc[p] = "gbk_get" /\ pc'[p] # "gbk_get"
         /\ exc[p] = "" /\ client[p] # None /\ storeUp
         /\ store[k].present /\ ~store[k].json) =>
            /\ pc'[p] = "idle"
            /\ ret'[p] = RetNone
            /\ exc'[p] = ""
            /\ store' = store]_vars

\* a get has just returned None for a key that holds a value that is not JSON
C24_Witness ==
    LET k == call["p1"].cache_key IN
    /\ pc["p1"] = "idle"
    /\ call["p1"].fn = "get_cached_data_by_key"
    /\ ret["p1"] = RetNone
    /\ redis_client # None /\ redis_client \in pinged /\ storeUp
    /\ store[k].present /\ ~store[k].json /\ store[k].ttl = MaxTTL

\* a step of cache_file
Stored == fres'.seq # fres.seq /\ fres'.fn = "cache_file"

\* C25: cache_file never raises on a file-system failure: when the source is
\* missing, when the move or the copy fails and when the cache directory
\* cannot be created it returns None
C25_StoreNeverRaises ==
    [][Stored =>
        /\ fres'.raised = ""
        /\ (\/ ~Exists(fs, fres'.source_path)
            \/ fres'.op_failed
            \/ fs[CacheRoot].kind # "dir") => (fres'.result = NoPath /\ fs' = fs)]_vars

\* C21: whatever the interleaving of a put with hits on the same key, the data
\* of the stored entry is the payload of the last put that completed: the
\* increment of a hit never writes an older payload over a newer one
C21_PayloadOfLastPut ==
    \A k \in CacheKeys :
        store[k].present => store[k].data = JsonRoundTrip(written[k])

\* C26: a key that invalidate_cache has removed stays out of the store until a
\* put writes it: the increment of a get that was in flight when the key was
\* deleted never brings it back
C26_DeletedStaysDeleted ==
    [][\A k \in CacheKeys :
        (~store[k].present /\ ~expired[k] /\ store'[k].present) =>
            \E p \in Procs : pc[p] = "sdk_setex" /\ call[p].cache_key = k]_vars

\* a step of the wrapper of f
WrapperStep(p) == call'[p].fn = "wrapper" /\ (pc'[p] # pc[p] \/ call'[p] # call[p])

\* C28: every call f(1) of the wrapped function returns what the body returns
\* for that argument, on a hit as on a miss; with the cache enabled the body
\* runs only when the key is not in the store; with the cache disabled the
\* wrapper leaves the store alone
C28_WrappedEqualsUnwrapped ==
    [][\A p \in Procs :
        WrapperStep(p) =>
            /\ pc'[p] = "idle" => ret'[p] = RetValue(FuncResult(FuncArgs))
            /\ (pc[p] = "wr_got" /\ pc'[p] = "sdk_enabled") => ~store[KeyFunc].present
            /\ ~enabled => store' = store]_vars
====
